---------------------------- MODULE Spec2Model ----------------------------
(***************************************************************************)
(* Model of the green-carbon-api monthly carbon pipeline                   *)
(* (apps/api/main.py and apps/api/core/{parser,categorizer,carbon}.py).    *)
(*                                                                         *)
(* Conventions                                                             *)
(*  - A Python str is a sequence of characters.  An ASCII character is a   *)
(*    one-character string; a Hangul syllable is written as its            *)
(*    romanisation in angle brackets ("<ka>" is the syllable of            *)
(*    U+CE74), so distinct syllables are distinct characters and no        *)
(*    syllable equals an ASCII character.                                  *)
(*  - An Optional[str] is a record [none, str].                            *)
(*  - Amounts are whole currency units (integers).  Emission factors are   *)
(*    scaled by 10^5 (0.00012 is 12), so carbon values and peer values     *)
(*    are integers in units of 10^-5 kg; rationals (ratios, scores) are    *)
(*    kept as [num, den] pairs and compared by cross-multiplication.       *)
(*    Non-finite amounts (nan, inf) are outside the modelled inputs.       *)
(***************************************************************************)
EXTENDS Integers, Sequences, FiniteSets, TLC

VARIABLES
  peer_file,     \* content of the file at PEER_CSV (input of startup)
  boot,          \* position of the startup handler
  peer_carbons,  \* main.py global
  peer_sorted,   \* main.py global
  peer_writes,   \* history: number of assignments made to the two globals
  req,           \* the request being served by the pipeline
  pc,            \* position of the request handler
  rows,          \* handler local: parsed rows
  idx,           \* handler local: number of rows consumed by the loop
  mi,            \* handler local: number of months consumed by the result loop
  monthly,       \* handler local: year-month -> accumulator
  results,       \* handler local: result list
  response,      \* what the caller receives
  readers,       \* concurrent scoring requests (peer-distribution readers)
  call,          \* a direct call of a core function: its name and inputs
  ret            \* the value the call returned

vars == <<peer_file, boot, peer_carbons, peer_sorted, peer_writes, req, pc,
          rows, idx, mi, monthly, results, response, readers, call, ret>>

---------------------------------------------------------------------------
(* Python values and string primitives                                     *)

NoneStr == [none |-> TRUE, str |-> <<>>]

Str(s) == [none |-> FALSE, str |-> s]

\* `s or ""`
OrEmpty(v) == IF v.none THEN <<>> ELSE v.str

Whitespace == {" ", "\t", "\n"}

UpperCase == <<"A", "B", "C", "D", "E", "F", "G", "H", "I", "J", "K", "L", "M",
               "N", "O", "P", "Q", "R", "S", "T", "U", "V", "W", "X", "Y", "Z">>

LowerCase == <<"a", "b", "c", "d", "e", "f", "g", "h", "i", "j", "k", "l", "m",
               "n", "o", "p", "q", "r", "s", "t", "u", "v", "w", "x", "y", "z">>

Digits == <<"0", "1", "2", "3", "4", "5", "6", "7", "8", "9">>

IsDigit(c) == \E i \in 1..10 : Digits[i] = c

DigitValue(c) == (CHOOSE i \in 1..10 : Digits[i] = c) - 1

SetMin(S) == CHOOSE x \in S : \A y \in S : x <= y

SetMax(S) == CHOOSE x \in S : \A y \in S : y <= x

\* str.lower(), one character
LowerChar(c) ==
  IF \E i \in 1..26 : UpperCase[i] = c
  THEN LowerCase[CHOOSE i \in 1..26 : UpperCase[i] = c]
  ELSE c

\* str.lower()
Lower(s) == [i \in 1..Len(s) |-> LowerChar(s[i])]

\* str.strip()
Strip(s) ==
  LET keep == {i \in 1..Len(s) : s[i] \notin Whitespace}
  IN  IF keep = {} THEN <<>> ELSE SubSeq(s, SetMin(keep), SetMax(keep))

\* `kw in text`
Contains(text, kw) ==
  \E i \in 0..(Len(text) - Len(kw)) : \A j \in 1..Len(kw) : text[i + j] = kw[j]

---------------------------------------------------------------------------
(* core/categorizer.py                                                     *)

CATEGORY_KEYWORDS ==
  <<
    \* 카페: 카페, 커피, 스타벅스, starbucks
    [cat |-> <<"<ka>", "<pe>">>, keywords |-> <<
       <<"<ka>", "<pe>">>,
       <<"<keo>", "<pi>">>,
       <<"<seu>", "<ta>", "<beog>", "<seu>">>,
       <<"s", "t", "a", "r", "b", "u", "c", "k", "s">>
     >>],
    \* 한식: 한식, 국밥, 김밥, 백반, 순대, 고기, 찌개
    [cat |-> <<"<han>", "<sig>">>, keywords |-> <<
       <<"<han>", "<sig>">>,
       <<"<gug>", "<bab>">>,
       <<"<gim>", "<bab>">>,
       <<"<baeg>", "<ban>">>,
       <<"<sun>", "<dae>">>,
       <<"<go>", "<gi>">>,
       <<"<jji>", "<gae>">>
     >>],
    \* 패션: 의류, 패션, 나이키, nike, 아디다스, adidas, 무신사, 자라, zara, 유니클로, uniqlo
    [cat |-> <<"<pae>", "<syeon>">>, keywords |-> <<
       <<"<ui>", "<ryu>">>,
       <<"<pae>", "<syeon>">>,
       <<"<na>", "<i>", "<ki>">>,
       <<"n", "i", "k", "e">>,
       <<"<a>", "<di>", "<da>", "<seu>">>,
       <<"a", "d", "i", "d", "a", "s">>,
       <<"<mu>", "<sin>", "<sa>">>,
       <<"<ja>", "<ra>">>,
       <<"z", "a", "r", "a">>,
       <<"<yu>", "<ni>", "<keul>", "<ro>">>,
       <<"u", "n", "i", "q", "l", "o">>
     >>],
    \* 식품: 마트, 이마트, emart, 홈플, 롯데마트, costco, 코스트코, 편의점, cu, gs25, 세븐일레븐, seven eleven, 세븐
    [cat |-> <<"<sig>", "<pum>">>, keywords |-> <<
       <<"<ma>", "<teu>">>,
       <<"<i>", "<ma>", "<teu>">>,
       <<"e", "m", "a", "r", "t">>,
       <<"<hom>", "<peul>">>,
       <<"<ros>", "<de>", "<ma>", "<teu>">>,
       <<"c", "o", "s", "t", "c", "o">>,
       <<"<ko>", "<seu>", "<teu>", "<ko>">>,
       <<"<pyeon>", "<ui>", "<jeom>">>,
       <<"c", "u">>,
       <<"g", "s", "2", "5">>,
       <<"<se>", "<beun>", "<il>", "<re>", "<beun>">>,
       <<"s", "e", "v", "e", "n", " ", "e", "l", "e", "v", "e", "n">>,
       <<"<se>", "<beun>">>
     >>],
    \* 온라인: 쿠팡, coupang, 네이버페이, naver pay, 스마일페이, 마켓컬리, 11번가, g마켓, gmarket, ssg, pay
    [cat |-> <<"<on>", "<ra>", "<in>">>, keywords |-> <<
       <<"<ku>", "<pang>">>,
       <<"c", "o", "u", "p", "a", "n", "g">>,
       <<"<ne>", "<i>", "<beo>", "<pe>", "<i>">>,
       <<"n", "a", "v", "e", "r", " ", "p", "a", "y">>,
       <<"<seu>", "<ma>", "<il>", "<pe>", "<i>">>,
       <<"<ma>", "<kes>", "<keol>", "<ri>">>,
       <<"1", "1", "<beon>", "<ga>">>,
       <<"g", "<ma>", "<kes>">>,
       <<"g", "m", "a", "r", "k", "e", "t">>,
       <<"s", "s", "g">>,
       <<"p", "a", "y">>
     >>],
    \* 택시: 택시, 카카오t, kakaot, 타다, 우버, uber
    [cat |-> <<"<taeg>", "<si>">>, keywords |-> <<
       <<"<taeg>", "<si>">>,
       <<"<ka>", "<ka>", "<o>", "t">>,
       <<"k", "a", "k", "a", "o", "t">>,
       <<"<ta>", "<da>">>,
       <<"<u>", "<beo>">>,
       <<"u", "b", "e", "r">>
     >>],
    \* 교통: 버스, 지하철, 전철, 철도, ktx, srt, 티머니, tmoney, 교통
    [cat |-> <<"<gyo>", "<tong>">>, keywords |-> <<
       <<"<beo>", "<seu>">>,
       <<"<ji>", "<ha>", "<cheol>">>,
       <<"<jeon>", "<cheol>">>,
       <<"<cheol>", "<do>">>,
       <<"k", "t", "x">>,
       <<"s", "r", "t">>,
       <<"<ti>", "<meo>", "<ni>">>,
       <<"t", "m", "o", "n", "e", "y">>,
       <<"<gyo>", "<tong>">>
     >>],
    \* 항공: 항공, 대한항공, korean air, 아시아나, asiana, 제주항공, 진에어, 티웨이, 이스타
    [cat |-> <<"<hang>", "<gong>">>, keywords |-> <<
       <<"<hang>", "<gong>">>,
       <<"<dae>", "<han>", "<hang>", "<gong>">>,
       <<"k", "o", "r", "e", "a", "n", " ", "a", "i", "r">>,
       <<"<a>", "<si>", "<a>", "<na>">>,
       <<"a", "s", "i", "a", "n", "a">>,
       <<"<je>", "<ju>", "<hang>", "<gong>">>,
       <<"<jin>", "<e>", "<eo>">>,
       <<"<ti>", "<we>", "<i>">>,
       <<"<i>", "<seu>", "<ta>">>
     >>],
    \* 병원: 병원, 의원, 치과, 한의원, 약국
    [cat |-> <<"<byeong>", "<won>">>, keywords |-> <<
       <<"<byeong>", "<won>">>,
       <<"<ui>", "<won>">>,
       <<"<chi>", "<gwa>">>,
       <<"<han>", "<ui>", "<won>">>,
       <<"<yag>", "<gug>">>
     >>],
    \* 문화: 영화, 공연, 극장, cgv, 메가박스, megabox, 뮤지컬, musical, 전시
    [cat |-> <<"<mun>", "<hwa>">>, keywords |-> <<
       <<"<yeong>", "<hwa>">>,
       <<"<gong>", "<yeon>">>,
       <<"<geug>", "<jang>">>,
       <<"c", "g", "v">>,
       <<"<me>", "<ga>", "<bag>", "<seu>">>,
       <<"m", "e", "g", "a", "b", "o", "x">>,
       <<"<myu>", "<ji>", "<keol>">>,
       <<"m", "u", "s", "i", "c", "a", "l">>,
       <<"<jeon>", "<si>">>
     >>],
    \* 배달: 배달, 배달의민족, 배민, baemin, 요기요, yogiyo, 쿠팡이츠, coupang eats, coupangeats, ubereats, 요기패스, 배민페이
    [cat |-> <<"<bae>", "<dal>">>, keywords |-> <<
       <<"<bae>", "<dal>">>,
       <<"<bae>", "<dal>", "<ui>", "<min>", "<jog>">>,
       <<"<bae>", "<min>">>,
       <<"b", "a", "e", "m", "i", "n">>,
       <<"<yo>", "<gi>", "<yo>">>,
       <<"y", "o", "g", "i", "y", "o">>,
       <<"<ku>", "<pang>", "<i>", "<cheu>">>,
       <<"c", "o", "u", "p", "a", "n", "g", " ", "e", "a", "t", "s">>,
       <<"c", "o", "u", "p", "a", "n", "g", "e", "a", "t", "s">>,
       <<"u", "b", "e", "r", "e", "a", "t", "s">>,
       <<"<yo>", "<gi>", "<pae>", "<seu>">>,
       <<"<bae>", "<min>", "<pe>", "<i>">>
     >>]
  >>


CAT_OTHER == <<"<gi>", "<ta>">>           \* 기타

CAT_ONLINE == <<"<on>", "<ra>", "<in>">>  \* 온라인

\* pay, 결제, online, on-line
FALLBACK_TOKENS ==
  << <<"p", "a", "y">>,
     <<"<gyeol>", "<je>">>,
     <<"o", "n", "l", "i", "n", "e">>,
     <<"o", "n", "-", "l", "i", "n", "e">> >>

\* _norm
Norm(v) == Lower(Strip(OrEmpty(v)))

\* _norm(kw) of every keyword of the table
NormalizedKeywords ==
  [i \in 1..Len(CATEGORY_KEYWORDS) |->
     [j \in 1..Len(CATEGORY_KEYWORDS[i].keywords) |->
        Norm(Str(CATEGORY_KEYWORDS[i].keywords[j]))]]

\* the inner loop of infer_category: some keyword of entry i occurs in text
KeywordHit(text, i) ==
  \E j \in 1..Len(NormalizedKeywords[i]) : Contains(text, NormalizedKeywords[i][j])

RECURSIVE ScanCategories_Last(_, _)
\* a variant of the outer loop that keeps scanning and returns the last match
ScanCategories_Last(text, i) ==
  IF i > Len(CATEGORY_KEYWORDS) THEN <<>>
  ELSE LET later == ScanCategories_Last(text, i + 1)
       IN  IF later # <<>> THEN later
           ELSE IF KeywordHit(text, i) THEN CATEGORY_KEYWORDS[i].cat
           ELSE <<>>

RECURSIVE ScanCategories(_, _)
\* the outer loop of infer_category from entry i on: the label returned, or
\* <<>> when the loop runs to its end
ScanCategories(text, i) ==
  IF i > Len(CATEGORY_KEYWORDS) THEN <<>>
  ELSE IF KeywordHit(text, i) THEN CATEGORY_KEYWORDS[i].cat
  ELSE ScanCategories(text, i + 1)

infer_category(merchant, category) ==
  LET text == Norm(merchant) \o <<" ">> \o Norm(category)
      hit  == ScanCategories(text, 1)
  IN  IF Strip(text) = <<>> THEN CAT_OTHER
      ELSE IF hit # <<>> THEN hit
      ELSE IF \E t \in 1..Len(FALLBACK_TOKENS) : Contains(text, FALLBACK_TOKENS[t])
           THEN CAT_ONLINE
      ELSE CAT_OTHER

---------------------------------------------------------------------------
(* core/parser.py                                                          *)

\* The four formats of parse_date, in the order they are tried.
DATE_FORMATS == <<"%Y-%m-%d", "%Y/%m/%d", "%Y.%m.%d", "%Y%m%d">>

\* A date text is [fmt, ym]: the format it is written in ("?" when it is in
\* none of the four) and, when it is in one of them, its <<year, month>>.
NoDate == [none |-> TRUE, fmt |-> "?", ym |-> <<0, 0>>]

DateText(f, m) == [none |-> FALSE, fmt |-> f, ym |-> m]

\* datetime.strptime(date_str, fmt) succeeds
Strptime(d, fmt) == ~d.none /\ d.fmt = fmt

\* parse_date: the canonical YYYY-MM-DD text, or None
parse_date(d) ==
  IF d.none THEN NoDate
  ELSE IF \E i \in 1..Len(DATE_FORMATS) : Strptime(d, DATE_FORMATS[i])
       THEN DateText("%Y-%m-%d", d.ym)
  ELSE NoDate

\* parse_csv, from the normalized rows on: a row is kept, with its date made
\* canonical, when it has a date that parses
RECURSIVE parse_csv(_)
parse_csv(file) ==
  IF file = <<>> THEN <<>>
  ELSE LET row == Head(file)
           parsed == IF "date" \in DOMAIN row THEN parse_date(row.date) ELSE NoDate
       IN  IF "date" \in DOMAIN row /\ ~parsed.none
           THEN <<[row EXCEPT !.date = parsed]>> \o parse_csv(Tail(file))
           ELSE parse_csv(Tail(file))

Separators == {",", "<fullwidth-comma>", "\n"}

WON == "<won>"  \* 원

RECURSIVE SplitItems(_, _)
\* re.split(r'[,，\n]+', s): cur is the item being read
SplitItems(s, cur) ==
  IF s = <<>> THEN <<cur>>
  ELSE IF Head(s) \in Separators
       THEN IF Len(s) > 1 /\ s[2] \in Separators
            THEN SplitItems(Tail(s), cur)
            ELSE <<cur>> \o SplitItems(Tail(s), <<>>)
  ELSE SplitItems(Tail(s), Append(cur, Head(s)))

IsAmountChar(c) == IsDigit(c) \/ c = ","

\* re.search(r'([\d,]+)\s*원?', item): [found, start, gend, end], the match
\* being item[start+1..end] and group 1 item[start+1..gend] (1-based, inclusive)
AmountMatch(item) ==
  LET starts == {i \in 1..Len(item) : IsAmountChar(item[i])}
  IN  IF starts = {} THEN [found |-> FALSE, start |-> 0, gend |-> 0, end |-> 0]
      ELSE LET s  == SetMin(starts)
               g  == SetMax({j \in s..Len(item) : \A k \in s..j : IsAmountChar(item[k])})
               w  == SetMax({j \in g..Len(item) : \A k \in (g + 1)..j : item[k] \in Whitespace})
               e  == IF w < Len(item) /\ item[w + 1] = WON THEN w + 1 ELSE w
           IN  [found |-> TRUE, start |-> s - 1, gend |-> g, end |-> e]

\* str.replace(',', '')
StripCommas(s) == SelectSeq(s, LAMBDA c : c # ",")

\* str.rstrip(), the trailing \s* of a pattern anchored at the end
RStrip(s) ==
  LET keep == {i \in 1..Len(s) : s[i] \notin Whitespace}
  IN  IF keep = {} THEN <<>> ELSE SubSeq(s, 1, SetMax(keep))

\* re.sub(r'\s*원?\s*$', '', s)
StripWonSuffix(s) ==
  LET a == RStrip(s)
      b == IF a # <<>> /\ a[Len(a)] = WON THEN SubSeq(a, 1, Len(a) - 1) ELSE a
  IN  RStrip(b)

RECURSIVE ReplaceAll(_, _)
\* s.replace(sub, ''), sub not empty
ReplaceAll(s, sub) ==
  IF Len(s) < Len(sub) \/ sub = <<>> THEN s
  ELSE IF SubSeq(s, 1, Len(sub)) = sub
       THEN ReplaceAll(SubSeq(s, Len(sub) + 1, Len(s)), sub)
  ELSE <<Head(s)>> \o ReplaceAll(Tail(s), sub)

RECURSIVE DigitsValue(_)
\* the number a run of decimal digits writes
DigitsValue(s) ==
  IF s = <<>> THEN 0 ELSE 10 * DigitsValue(SubSeq(s, 1, Len(s) - 1)) + DigitValue(s[Len(s)])

RECURSIVE NatRepr(_)
\* the decimal digits of a natural number
NatRepr(n) ==
  IF n < 10 THEN <<Digits[n + 1]>> ELSE Append(NatRepr(n \div 10), Digits[(n % 10) + 1])

\* str(x) of a float holding a whole number: "5000.0", "-3000.0"
FloatRepr(n) ==
  (IF n < 0 THEN <<"-">> ELSE <<>>) \o NatRepr(IF n < 0 THEN -n ELSE n) \o <<".", "0">>

\* float(s): [ok, val].  Accepted here: optional surrounding whitespace, an
\* optional sign, digits, and an optional fraction of zeros (the amounts of
\* the model are whole numbers); everything else raises ValueError.
ParseFloat(s) ==
  LET t    == Strip(s)
      neg  == t # <<>> /\ t[1] = "-"
      u    == IF t # <<>> /\ t[1] \in {"-", "+"} THEN Tail(t) ELSE t
      dots == {i \in 1..Len(u) : u[i] = "."}
      ip   == IF dots = {} THEN u ELSE SubSeq(u, 1, SetMin(dots) - 1)
      fp   == IF dots = {} THEN <<>> ELSE SubSeq(u, SetMin(dots) + 1, Len(u))
      ok   == /\ ip # <<>>
              /\ \A i \in 1..Len(ip) : IsDigit(ip[i])
              /\ \A i \in 1..Len(fp) : fp[i] = "0"
  IN  IF ok THEN [ok |-> TRUE, val |-> IF neg THEN -DigitsValue(ip) ELSE DigitsValue(ip)]
      ELSE [ok |-> FALSE, val |-> 0]

\* the body of parse_text's loop for one item: the rows it appends
ParseItem(raw_item, date) ==
  LET item == Strip(raw_item)
      m    == AmountMatch(item)
      amt  == ParseFloat(StripCommas(SubSeq(item, m.start + 1, m.gend)))
      m1   == Strip(SubSeq(item, 1, m.start)) \o Strip(SubSeq(item, m.end + 1, Len(item)))
      m2   == Strip(StripWonSuffix(m1))
      m3   == IF m2 = <<>>
              THEN Strip(ReplaceAll(item, SubSeq(item, m.start + 1, m.end)))
              ELSE m2
      m4   == IF m3 = <<>> THEN <<"<gi>", "<ta>">> ELSE m3
  IN  IF item = <<>> \/ ~m.found \/ ~amt.ok THEN <<>>
      ELSE <<[date |-> date, amount |-> Str(FloatRepr(amt.val)),
              merchant |-> Str(m4), category |-> Str(<<>>)]>>

RECURSIVE ParseItems(_, _)
ParseItems(items, date) ==
  IF items = <<>> THEN <<>>
  ELSE ParseItem(Head(items), date) \o ParseItems(Tail(items), date)

\* parse_text(text, date); today is datetime.now()
parse_text(text, date, today) ==
  LET parsed == parse_date(date)
      d == IF date.none \/ parsed.none THEN DateText("%Y-%m-%d", today) ELSE parsed
  IN  ParseItems(SplitItems(Strip(text), <<>>), d)

EMISSION_FACTORS ==
  <<
    [cat |-> <<"<hang>", "<gong>">>, ef |-> 60],  \* 항공: 0.00060
    [cat |-> <<"<yeo>", "<haeng>">>, ef |-> 60],  \* 여행: 0.00060
    [cat |-> <<"<taeg>", "<si>">>, ef |-> 18],  \* 택시: 0.00018
    [cat |-> <<"<gyo>", "<tong>">>, ef |-> 12],  \* 교통: 0.00012
    [cat |-> <<"<beo>", "<seu>">>, ef |-> 12],  \* 버스: 0.00012
    [cat |-> <<"<ji>", "<ha>", "<cheol>">>, ef |-> 10],  \* 지하철: 0.00010
    [cat |-> <<"<ka>", "<pe>">>, ef |-> 12],  \* 카페: 0.00012
    [cat |-> <<"<eum>", "<sig>", "<jeom>">>, ef |-> 12],  \* 음식점: 0.00012
    [cat |-> <<"<han>", "<sig>">>, ef |-> 12],  \* 한식: 0.00012
    [cat |-> <<"<bae>", "<dal>">>, ef |-> 15],  \* 배달: 0.00015
    [cat |-> <<"<sig>", "<pum>">>, ef |-> 8],  \* 식품: 0.00008
    [cat |-> <<"<ma>", "<teu>">>, ef |-> 8],  \* 마트: 0.00008
    [cat |-> <<"<pae>", "<syeon>">>, ef |-> 20],  \* 패션: 0.00020
    [cat |-> <<"<ui>", "<ryu>">>, ef |-> 20],  \* 의류: 0.00020
    [cat |-> <<"<on>", "<ra>", "<in>">>, ef |-> 9],  \* 온라인: 0.00009
    [cat |-> <<"<mun>", "<hwa>">>, ef |-> 6],  \* 문화: 0.00006
    [cat |-> <<"<byeong>", "<won>">>, ef |-> 6],  \* 병원: 0.00006
    [cat |-> <<"<gi>", "<ta>">>, ef |-> 5]  \* 기타: 0.00005
  >>

---------------------------------------------------------------------------
(* Exact arithmetic standing for Python floats: a rational [num, den],     *)
(* den > 0, in lowest terms.                                               *)

RECURSIVE GCD(_, _)
GCD(a, b) == IF b = 0 THEN a ELSE GCD(b, a % b)

Abs(n) == IF n < 0 THEN -n ELSE n

\* n / d, d # 0
Rat(n, d) ==
  LET g == GCD(Abs(n), Abs(d))
      s == IF d < 0 THEN -1 ELSE 1
  IN  [num |-> s * (n \div g), den |-> s * (d \div g)]

RatOf(n) == [num |-> n, den |-> 1]

RatAdd(a, b) == Rat(a.num * b.den + b.num * a.den, a.den * b.den)

RatSub(a, b) == Rat(a.num * b.den - b.num * a.den, a.den * b.den)

RatMul(a, b) == Rat(a.num * b.num, a.den * b.den)

RatLess(a, b) == a.num * b.den < b.num * a.den

RatLeq(a, b) == a.num * b.den <= b.num * a.den

RatMax(a, b) == IF RatLess(a, b) THEN b ELSE a

RatMin(a, b) == IF RatLess(b, a) THEN b ELSE a

\* round(x, 1) of the value r / scale, as a number of tenths (ties to even)
Round1(r, scale) ==
  LET n == r.num * 10
      d == r.den * scale
      q == n \div d
      twice == 2 * (n - q * d)
  IN  IF twice > d \/ (twice = d /\ q % 2 = 1) THEN q + 1 ELSE q

---------------------------------------------------------------------------
(* core/carbon.py                                                          *)


RECURSIVE Lookup(_, _, _)
\* table.get(key, default) on a table of [cat, ef] rows
Lookup(table, key, default) ==
  IF table = <<>> THEN default
  ELSE IF Head(table).cat = key THEN Head(table).ef
  ELSE Lookup(Tail(table), key, default)

\* EMISSION_FACTORS.get(category, EMISSION_FACTORS["기타"])
EmissionFactor(category) ==
  Lookup(EMISSION_FACTORS, category, Lookup(EMISSION_FACTORS, <<"<gi>", "<ta>">>, 0))

\* total_amt * ratio * ef
CategoryEmission(total_amt, ratio, category) ==
  RatMul(RatMul(total_amt, ratio), RatOf(EmissionFactor(category)))

RECURSIVE calculate_carbon_emission(_, _)
\* category_ratios is the dict in insertion order: a sequence of [cat, ratio]
calculate_carbon_emission(total_amt, category_ratios) ==
  IF category_ratios = <<>> THEN RatOf(0)
  ELSE LET n == Len(category_ratios)
           last == category_ratios[n]
       IN  RatAdd(calculate_carbon_emission(total_amt, SubSeq(category_ratios, 1, n - 1)),
                  CategoryEmission(total_amt, last.ratio, last.cat))

RECURSIVE CountBelow_Leq(_, _)
\* a variant that counts with <= where the code counts with <
CountBelow_Leq(peers, carbon_kg) ==
  IF peers = <<>> THEN 0
  ELSE (IF RatLeq(RatOf(Head(peers)), carbon_kg) THEN 1 ELSE 0)
       + CountBelow_Leq(Tail(peers), carbon_kg)

RECURSIVE CountBelow(_, _)
\* (peer_array < carbon_kg).sum()
CountBelow(peers, carbon_kg) ==
  IF peers = <<>> THEN 0
  ELSE (IF RatLess(RatOf(Head(peers)), carbon_kg) THEN 1 ELSE 0)
       + CountBelow(Tail(peers), carbon_kg)

\* a variant that returns the percentile itself, without 100 - percentile
calculate_carbon_score_Uninverted(carbon_kg, peers) ==
  IF peers = <<>> THEN RatOf(50)
  ELSE LET percentile == RatMul(Rat(CountBelow(peers, carbon_kg), Len(peers)), RatOf(100))
       IN  RatMax(RatOf(0), RatMin(RatOf(100), percentile))

calculate_carbon_score(carbon_kg, peers) ==
  IF peers = <<>> THEN RatOf(50)
  ELSE LET percentile == RatMul(Rat(CountBelow(peers, carbon_kg), Len(peers)), RatOf(100))
           score == RatSub(RatOf(100), percentile)
       IN  RatMax(RatOf(0), RatMin(RatOf(100), score))

RECURSIVE InsertDesc_Asc(_, _)
\* a variant that sorts ascending, as sorted() does without reverse=True
InsertDesc_Asc(sorted_seq, x) ==
  IF sorted_seq = <<>> THEN <<x>>
  ELSE IF RatLess(x.key, Head(sorted_seq).key) THEN <<x>> \o sorted_seq
  ELSE <<Head(sorted_seq)>> \o InsertDesc_Asc(Tail(sorted_seq), x)

RECURSIVE InsertDesc(_, _)
\* one step of a stable descending sort on .key: x goes behind its equals
InsertDesc(sorted_seq, x) ==
  IF sorted_seq = <<>> THEN <<x>>
  ELSE IF RatLess(Head(sorted_seq).key, x.key) THEN <<x>> \o sorted_seq
  ELSE <<Head(sorted_seq)>> \o InsertDesc(Tail(sorted_seq), x)

RECURSIVE SortedDesc(_)
\* sorted(items, key=..., reverse=True): stable, equal keys keep their order
SortedDesc(items) ==
  IF items = <<>> THEN <<>>
  ELSE InsertDesc(SortedDesc(SubSeq(items, 1, Len(items) - 1)), items[Len(items)])

\* seq[:n]
SliceTo(s, n) ==
  IF n >= 0 THEN SubSeq(s, 1, IF n < Len(s) THEN n ELSE Len(s))
  ELSE SubSeq(s, 1, IF Len(s) + n > 0 THEN Len(s) + n ELSE 0)

\* the top_n (category, emission) pairs of generate_recommendations
TopEmitters(total_amt, category_ratios, top_n) ==
  LET category_emissions ==
        [i \in 1..Len(category_ratios) |->
           [cat |-> category_ratios[i].cat,
            key |-> CategoryEmission(total_amt, category_ratios[i].ratio,
                                     category_ratios[i].cat)]]
  IN  SliceTo(SortedDesc(category_emissions), top_n)

\* the action and tip texts of a recommendation are fixed per category and
\* are left out
generate_recommendations(category_amounts, total_amt, category_ratios, top_n) ==
  LET top_cats == TopEmitters(total_amt, category_ratios, top_n)
  IN  [i \in 1..Len(top_cats) |->
         [category |-> top_cats[i].cat,
          expected_reduction_kg |->
             Round1(RatMul(top_cats[i].key, Rat(15, 100)), 100000)]]

---------------------------------------------------------------------------
(* main.py: startup and the peer distribution                              *)

\* The file at PEER_CSV: whether it exists, whether it has a carbon_kg
\* column, and the cells of that column ([na, v]; na is an empty cell).
MissingFile == [exists |-> FALSE, has_column |-> FALSE, cells |-> <<>>]

PeerFile(col, cells) == [exists |-> TRUE, has_column |-> col, cells |-> cells]

Cell(v) == [na |-> FALSE, v |-> v]

NaCell == [na |-> TRUE, v |-> 0]

RECURSIVE InsertAsc(_, _)
\* one step of a stable ascending sort of numbers
InsertAsc(sorted_seq, x) ==
  IF sorted_seq = <<>> THEN <<x>>
  ELSE IF x < Head(sorted_seq) THEN <<x>> \o sorted_seq
  ELSE <<Head(sorted_seq)>> \o InsertAsc(Tail(sorted_seq), x)

RECURSIVE Sorted(_)
\* sorted(numbers)
Sorted(s) ==
  IF s = <<>> THEN <<>>
  ELSE InsertAsc(Sorted(SubSeq(s, 1, Len(s) - 1)), s[Len(s)])

\* df["carbon_kg"].dropna().tolist() if "carbon_kg" in df.columns else []
CarbonColumn(file) ==
  IF file.has_column
  THEN LET kept == SelectSeq(file.cells, LAMBDA c : ~c.na)
       IN  [i \in 1..Len(kept) |-> kept[i].v]
  ELSE <<>>

---------------------------------------------------------------------------
(* main.py: classification utilities                                       *)

\* 배달, 배민, 요기요, 쿠팡이츠, ubereats, delivery, 음식배달, 외식
DELIVERY_PAT ==
  <<
    <<"<bae>", "<dal>">>,
    <<"<bae>", "<min>">>,
    <<"<yo>", "<gi>", "<yo>">>,
    <<"<ku>", "<pang>", "<i>", "<cheu>">>,
    <<"u", "b", "e", "r", "e", "a", "t", "s">>,
    <<"d", "e", "l", "i", "v", "e", "r", "y">>,
    <<"<eum>", "<sig>", "<bae>", "<dal>">>,
    <<"<oe>", "<sig>">>
  >>

\* 카페, 커피, cafe, coffee, 스타벅스, 이디야, 할리스, 투썸, 메가커피
CAFE_PAT ==
  <<
    <<"<ka>", "<pe>">>,
    <<"<keo>", "<pi>">>,
    <<"c", "a", "f", "e">>,
    <<"c", "o", "f", "f", "e", "e">>,
    <<"<seu>", "<ta>", "<beog>", "<seu>">>,
    <<"<i>", "<di>", "<ya>">>,
    <<"<hal>", "<ri>", "<seu>">>,
    <<"<tu>", "<sseom>">>,
    <<"<me>", "<ga>", "<keo>", "<pi>">>
  >>

\* 교통, 대중교통, 지하철, 버스, 택시, transport, subway, bus, taxi, tmoney, 카카오t
TRANS_PAT ==
  <<
    <<"<gyo>", "<tong>">>,
    <<"<dae>", "<jung>", "<gyo>", "<tong>">>,
    <<"<ji>", "<ha>", "<cheol>">>,
    <<"<beo>", "<seu>">>,
    <<"<taeg>", "<si>">>,
    <<"t", "r", "a", "n", "s", "p", "o", "r", "t">>,
    <<"s", "u", "b", "w", "a", "y">>,
    <<"b", "u", "s">>,
    <<"t", "a", "x", "i">>,
    <<"t", "m", "o", "n", "e", "y">>,
    <<"<ka>", "<ka>", "<o>", "t">>
  >>

THRESH_DELIVERY_RATIO == 35  \* 0.35, in hundredths

THRESH_CAFE_RATIO == 25      \* 0.25

THRESH_TRANS_RATIO == 25     \* 0.25

PCTL_HIGH == 80              \* 0.80

PCTL_LOW == 20               \* 0.20

Hundredths(n) == Rat(n, 100)

_contains_any(text, pats) ==
  LET t == Lower(text)
  IN  \E i \in 1..Len(pats) : Contains(t, Lower(pats[i]))

RECURSIVE bucket_ratios(_)
\* cat_ratio is the dict in insertion order: a sequence of [cat, ratio]
bucket_ratios(cat_ratio) ==
  IF cat_ratio = <<>> THEN [delivery |-> RatOf(0), cafe |-> RatOf(0), transport |-> RatOf(0)]
  ELSE LET n  == Len(cat_ratio)
           br == bucket_ratios(SubSeq(cat_ratio, 1, n - 1))
           k  == cat_ratio[n].cat
           v  == cat_ratio[n].ratio
       IN  IF _contains_any(k, DELIVERY_PAT) THEN [br EXCEPT !.delivery = RatAdd(@, v)]
           ELSE IF _contains_any(k, CAFE_PAT) THEN [br EXCEPT !.cafe = RatAdd(@, v)]
           ELSE IF _contains_any(k, TRANS_PAT) THEN [br EXCEPT !.transport = RatAdd(@, v)]
           ELSE br

\* a variant that tests the cafe threshold before the delivery threshold
classify_main_type_CafeFirst(cat_ratio) ==
  LET br  == bucket_ratios(cat_ratio)
      top == SortedDesc(<<[cat |-> "delivery", key |-> br.delivery],
                          [cat |-> "cafe", key |-> br.cafe],
                          [cat |-> "transport", key |-> br.transport]>>)
  IN  IF RatLeq(Hundredths(THRESH_CAFE_RATIO), br.cafe) THEN "cafe-type"
      ELSE IF RatLeq(Hundredths(THRESH_DELIVERY_RATIO), br.delivery) THEN "delivery-type"
      ELSE IF RatLeq(Hundredths(THRESH_TRANS_RATIO), br.transport) THEN "transport-type"
      ELSE IF /\ RatLeq(RatSub(top[1].key, top[2].key), Hundredths(7))
              /\ RatLeq(Hundredths(18), top[1].key)
              /\ RatLeq(Hundredths(18), top[2].key)
           THEN "mixed"
      ELSE "other-type"

\* labels: 배달형, 카페형, 교통형, 혼합형, 기타형
classify_main_type(cat_ratio) ==
  LET br  == bucket_ratios(cat_ratio)
      top == SortedDesc(<<[cat |-> "delivery", key |-> br.delivery],
                          [cat |-> "cafe", key |-> br.cafe],
                          [cat |-> "transport", key |-> br.transport]>>)
  IN  IF RatLeq(Hundredths(THRESH_DELIVERY_RATIO), br.delivery) THEN "delivery-type"
      ELSE IF RatLeq(Hundredths(THRESH_CAFE_RATIO), br.cafe) THEN "cafe-type"
      ELSE IF RatLeq(Hundredths(THRESH_TRANS_RATIO), br.transport) THEN "transport-type"
      ELSE IF /\ RatLeq(RatSub(top[1].key, top[2].key), Hundredths(7))
              /\ RatLeq(Hundredths(18), top[1].key)
              /\ RatLeq(Hundredths(18), top[2].key)
           THEN "mixed"
      ELSE "other-type"

RECURSIVE bisect_left(_, _, _, _)
\* bisect.bisect_left(a, x): the variant that stops before the values equal to x
bisect_left(a, x, lo, hi) ==
  IF lo < hi
  THEN LET mid == (lo + hi) \div 2
       IN  IF RatLess(RatOf(a[mid + 1]), x)
           THEN bisect_left(a, x, mid + 1, hi)
           ELSE bisect_left(a, x, lo, mid)
  ELSE lo

RECURSIVE bisect_right(_, _, _, _)
\* bisect.bisect_right(a, x), written as its loop on lo and hi
bisect_right(a, x, lo, hi) ==
  IF lo < hi
  THEN LET mid == (lo + hi) \div 2
       IN  IF RatLess(x, RatOf(a[mid + 1]))
           THEN bisect_right(a, x, lo, mid)
           ELSE bisect_right(a, x, mid + 1, hi)
  ELSE lo

\* labels: 고탄소(개선 필요), 저탄소, 보통; sorted_peers is the global peer_sorted
classify_climate_type(carbon_kg, sorted_peers) ==
  IF sorted_peers = <<>> THEN "moderate"
  ELSE LET pos == bisect_right(sorted_peers, carbon_kg, 0, Len(sorted_peers))
           pct == Rat(pos, Len(sorted_peers))
       IN  IF RatLeq(Hundredths(PCTL_HIGH), pct) THEN "high-carbon"
           ELSE IF RatLeq(pct, Hundredths(PCTL_LOW)) THEN "low-carbon"
           ELSE "moderate"

\* the variant of categorizer.classify_types: 15 / 15,000 and 5 / 50,000
classify_behavior_type_Primary(txn_count, avg_ticket) ==
  IF txn_count >= 15 /\ RatLess(avg_ticket, RatOf(15000)) THEN "frequent small-ticket"
  ELSE IF txn_count <= 5 /\ RatLeq(RatOf(50000), avg_ticket) THEN "rare large-ticket"
  ELSE "balanced"

\* labels: 소액 다빈, 고액 소빈, 균형
classify_behavior_type(txn_count, avg_ticket) ==
  IF txn_count >= 20 /\ RatLeq(avg_ticket, RatOf(10000)) THEN "frequent small-ticket"
  ELSE IF txn_count <= 5 /\ RatLeq(RatOf(30000), avg_ticket) THEN "rare large-ticket"
  ELSE "balanced"

---------------------------------------------------------------------------
(* core/categorizer.py: top categories and the cluster hint                *)

\* the names of the top_n categories by amount
get_top_categories(category_amounts, top_n) ==
  LET keyed == [i \in 1..Len(category_amounts) |->
                  [cat |-> category_amounts[i].cat, key |-> RatOf(category_amounts[i].amt)]]
      top   == SliceTo(SortedDesc(keyed), top_n)
  IN  [i \in 1..Len(top) |-> top[i].cat]

RECURSIVE JoinSlash(_)
\* "/".join(names)
JoinSlash(names) ==
  IF names = <<>> THEN <<>>
  ELSE IF Len(names) = 1 THEN names[1]
  ELSE names[1] \o <<"/">> \o JoinSlash(Tail(names))

\* 기타형 when there is no category, else the names joined, then 형
generate_cluster_name_hint(top_categories) ==
  IF top_categories = <<>> THEN <<"<gi>", "<ta>", "<hyeong>">>
  ELSE JoinSlash(top_categories) \o <<"<hyeong>">>

---------------------------------------------------------------------------
(* main.py: the monthly aggregation of predict and predict_text            *)
(* (the two handlers share the loop and the result generation verbatim)    *)

\* row.get(key, default); a missing key without default gives None
Get(row, key, default) == IF key \in DOMAIN row THEN row[key] ELSE default

\* `a or b` on Optional[str]
Or(a, b) == IF a.none \/ a.str = <<>> THEN b ELSE a

\* str(v)
StrOf(v) == IF v.none THEN <<"N", "o", "n", "e">> ELSE v.str

\* the loop over the four formats: the parsed date, or None
FlexibleDate(d) ==
  IF \E i \in 1..Len(DATE_FORMATS) : Strptime(d, DATE_FORMATS[i]) THEN d ELSE NoDate

\* a variant that counts an unparseable amount as 0 instead of skipping the row
AmountOf_Lenient(row) ==
  [ok |-> TRUE, val |-> ParseFloat(StripCommas(StrOf(row.amount))).val]

\* float(str(row["amount"]).replace(",", "")) under its try/except
AmountOf(row) == ParseFloat(StripCommas(StrOf(row.amount)))

\* a variant that assigns (=) where the code adds (+=)
AddToCategory_Assign(category_amounts, cat, amount) ==
  IF \E i \in 1..Len(category_amounts) : category_amounts[i].cat = cat
  THEN [i \in 1..Len(category_amounts) |->
          IF category_amounts[i].cat = cat
          THEN [category_amounts[i] EXCEPT !.amt = amount]
          ELSE category_amounts[i]]
  ELSE Append(category_amounts, [cat |-> cat, amt |-> amount])

\* category_amounts[cat] += amount on the dict in insertion order
AddToCategory(category_amounts, cat, amount) ==
  IF \E i \in 1..Len(category_amounts) : category_amounts[i].cat = cat
  THEN [i \in 1..Len(category_amounts) |->
          IF category_amounts[i].cat = cat
          THEN [category_amounts[i] EXCEPT !.amt = @ + amount]
          ELSE category_amounts[i]]
  ELSE Append(category_amounts, [cat |-> cat, amt |-> amount])

\* the default value of the defaultdict
NewBucket(ym) == [ym |-> ym, category_amounts |-> <<>>, total_amt |-> 0, txn_count |-> 0]

\* the three += of the loop body on monthly[ym], creating the bucket on first use
Accumulate(buckets, ym, cat, amount) ==
  LET present == \E i \in 1..Len(buckets) : buckets[i].ym = ym
      all == IF present THEN buckets ELSE Append(buckets, NewBucket(ym))
  IN  [i \in 1..Len(all) |->
         IF all[i].ym = ym
         THEN [all[i] EXCEPT !.category_amounts = AddToCategory(@, cat, amount),
                             !.total_amt = @ + amount,
                             !.txn_count = @ + 1]
         ELSE all[i]]

\* one iteration of `for row in rows`
AggregateRow(buckets, row) ==
  IF "date" \notin DOMAIN row \/ "amount" \notin DOMAIN row THEN buckets
  ELSE LET dt == FlexibleDate(row.date)
           amount == AmountOf(row)
           merchant == Or(Get(row, "merchant", NoneStr), Get(row, "merchant_name", Str(<<>>)))
           category == Get(row, "category", Str(<<>>))
       IN  IF dt.none THEN buckets
           ELSE IF ~amount.ok THEN buckets
           ELSE Accumulate(buckets, dt.ym, infer_category(merchant, category), amount.val)

\* "%Y-%m" keys compare as their <<year, month>>
YmLess(a, b) == a[1] < b[1] \/ (a[1] = b[1] /\ a[2] < b[2])

RECURSIVE InsertYm(_, _)
InsertYm(sorted_seq, x) ==
  IF sorted_seq = <<>> THEN <<x>>
  ELSE IF YmLess(x, Head(sorted_seq)) THEN <<x>> \o sorted_seq
  ELSE <<Head(sorted_seq)>> \o InsertYm(Tail(sorted_seq), x)

RECURSIVE SortedYm(_)
SortedYm(s) ==
  IF s = <<>> THEN <<>>
  ELSE InsertYm(SortedYm(SubSeq(s, 1, Len(s) - 1)), s[Len(s)])

\* a variant that iterates monthly.keys() as inserted, without sorted()
SortedKeys_Unsorted(buckets) == [i \in 1..Len(buckets) |-> buckets[i].ym]

\* sorted(monthly.keys())
SortedKeys(buckets) == SortedYm([i \in 1..Len(buckets) |-> buckets[i].ym])

\* monthly[ym]
Bucket(buckets, ym) == buckets[CHOOSE i \in 1..Len(buckets) : buckets[i].ym = ym]

\* the body of `for ym in sorted(monthly.keys())` past the total_amt guard:
\* the dict appended to results, with the loop's locals kept beside it
MonthResult(b, peers, sorted_peers) ==
  LET total_amt    == b.total_amt
      txn_count    == IF b.txn_count = 0 THEN 1 ELSE b.txn_count
      avg_ticket   == Rat(total_amt, txn_count)
      cat_amt      == b.category_amounts
      cat_ratio    == [i \in 1..Len(cat_amt) |->
                         [cat |-> cat_amt[i].cat, ratio |-> Rat(cat_amt[i].amt, total_amt)]]
      carbon_kg    == calculate_carbon_emission(RatOf(total_amt), cat_ratio)
      carbon_score == calculate_carbon_score(carbon_kg, peers)
  IN  [month             |-> b.ym,
       total_amt         |-> Round1(RatOf(total_amt), 1),
       cluster_name_hint |-> generate_cluster_name_hint(get_top_categories(cat_amt, 3)),
       carbon_kg         |-> Round1(carbon_kg, 100000),
       carbon_score      |-> Round1(carbon_score, 1),
       main_type         |-> classify_main_type(cat_ratio),
       climate_type      |-> classify_climate_type(carbon_kg, sorted_peers),
       behavior_type     |-> classify_behavior_type(txn_count, avg_ticket),
       recommendations   |-> generate_recommendations(cat_amt, RatOf(total_amt), cat_ratio, 2),
       locals            |-> [total_amt |-> total_amt, txn_count |-> txn_count,
                              cat_ratio |-> cat_ratio, carbon_kg |-> carbon_kg,
                              carbon_score |-> carbon_score]]

\* one iteration of the result loop
GenerateMonth(res, b, peers, sorted_peers) ==
  IF b.total_amt <= 0 THEN res ELSE Append(res, MonthResult(b, peers, sorted_peers))

---------------------------------------------------------------------------
(* Inputs of the pipeline                                                  *)

\* longest CSV upload, in rows
MaxRows == 3

SeqsUpTo(S, n) == UNION {[1..k -> S] : k \in 0..n}

CsvDates ==
  { DateText("%Y-%m-%d", <<2024, 1>>),   \* 2024-01-15
    DateText("%Y%m%d", <<2023, 12>>),    \* 20231220
    DateText("?", <<0, 0>>) }            \* 15 Jan 2024

\* (amount text, merchant) of the sample transactions
CsvPurchases ==
  { [amount |-> <<"5", ",", "0", "0", "0">>,                      \* 5,000
     merchant |-> <<"S", "t", "a", "r", "b", "u", "c", "k", "s">>],  \* Starbucks
    [amount |-> <<"5", ",", "0", "0", "0">>,
     merchant |-> <<"<dae>", "<han>", "<hang>", "<gong>">>],      \* 대한항공
    [amount |-> <<"-", "3", "0", "0", "0">>,                      \* -3000
     merchant |-> <<"<dae>", "<han>", "<hang>", "<gong>">>],
    [amount |-> <<"a", "b", "c">>,                                \* abc
     merchant |-> <<"S", "t", "a", "r", "b", "u", "c", "k", "s">>] }

\* normalized rows of an upload with date, amount and merchant columns
FullRows ==
  {[date |-> d, amount |-> Str(p.amount), merchant |-> Str(p.merchant)] :
     d \in CsvDates, p \in CsvPurchases}

\* ... of an upload without an amount column
RowsWithoutAmount ==
  {[date |-> d, merchant |-> Str(p.merchant)] : d \in CsvDates, p \in CsvPurchases}

\* ... of an upload without a date column
RowsWithoutDate ==
  {[amount |-> Str(a), merchant |-> Str(<<>>)] : a \in {<<"5", ",", "0", "0", "0">>}}

CsvFiles ==
  SeqsUpTo(FullRows, MaxRows) \cup SeqsUpTo(RowsWithoutAmount, MaxRows)
    \cup SeqsUpTo(RowsWithoutDate, MaxRows)

Texts ==
  { \* 스타벅스 5000원, 배달의민족 15000원
    <<"<seu>", "<ta>", "<beog>", "<seu>", " ", "5", "0", "0", "0", "<won>", ",", " ",
      "<bae>", "<dal>", "<ui>", "<min>", "<jog>", " ", "1", "5", "0", "0", "0", "<won>">>,
    \* 스타벅스 5,000원
    <<"<seu>", "<ta>", "<beog>", "<seu>", " ", "5", ",", "0", "0", "0", "<won>">>,
    \* 커피
    <<"<keo>", "<pi>">>,
    \* 0원
    <<"0", "<won>">> }

TextDates == {NoDate, DateText("%Y/%m/%d", <<2024, 1>>), DateText("?", <<0, 0>>)}

\* datetime.now() while the request is served
Today == <<2024, 3>>

Requests ==
  {[endpoint |-> "predict", has_file |-> TRUE, file |-> f, text |-> NoneStr,
    date |-> NoDate, today |-> Today] : f \in CsvFiles}
  \cup
  {[endpoint |-> e, has_file |-> FALSE, file |-> <<>>, text |-> Str(t),
    date |-> d, today |-> Today] :
     e \in {"predict", "predict_text"}, t \in Texts \cup {<<>>}, d \in TextDates}
  \cup
  {[endpoint |-> "predict", has_file |-> FALSE, file |-> <<>>, text |-> NoneStr,
    date |-> NoDate, today |-> Today]}

\* peer files the pipeline is started with; values in units of 10^-5 kg
PipelinePeerFiles ==
  { MissingFile,
    PeerFile(TRUE, <<Cell(300000), NaCell, Cell(60000), Cell(120000)>>) }

NoRequest ==
  [endpoint |-> "", has_file |-> FALSE, file |-> <<>>, text |-> NoneStr,
   date |-> NoDate, today |-> Today]

NoResponse == [status |-> 0, detail |-> "", body |-> <<>>]

NoWrites == [peer_carbons |-> 0, peer_sorted |-> 0]

NoCall == [fn |-> "none"]

---------------------------------------------------------------------------
(* main.py: startup                                                        *)

\* load_peer_distribution raises FileNotFoundError: the application does
\* not come up and serves nothing
StartupFail ==
  /\ boot = "starting"
  /\ ~peer_file.exists
  /\ boot' = "failed"
  /\ UNCHANGED <<peer_file, peer_carbons, peer_sorted, peer_writes, req, pc, rows, idx,
                 mi, monthly, results, response, readers, call, ret>>

\* peer_carbons[:] = ...
LoadPeerCarbons ==
  /\ boot = "starting"
  /\ peer_file.exists
  /\ peer_carbons' = CarbonColumn(peer_file)
  /\ peer_writes' = [peer_writes EXCEPT !.peer_carbons = @ + 1]
  /\ boot' = "loading"
  /\ UNCHANGED <<peer_file, peer_sorted, req, pc, rows, idx, mi, monthly, results,
                 response, readers, call, ret>>

\* peer_sorted[:] = sorted(peer_carbons); startup_event returns
SortPeers ==
  /\ boot = "loading"
  /\ peer_sorted' = Sorted(peer_carbons)
  /\ peer_writes' = [peer_writes EXCEPT !.peer_sorted = @ + 1]
  /\ boot' = "up"
  /\ UNCHANGED <<peer_file, peer_carbons, req, pc, rows, idx, mi, monthly, results,
                 response, readers, call, ret>>

---------------------------------------------------------------------------
(* main.py: predict and predict_text                                       *)

\* a variant that serves requests while startup_event is still running
ServerReady_Early == boot # "failed"

\* @app.on_event("startup"): requests are served once startup_event returned
ServerReady == boot = "up"

Truthy(v) == ~v.none /\ v.str # <<>>

\* rows as predict has them at `if not rows` (None and [] are both falsy)
PredictRows(r) ==
  IF r.has_file THEN parse_csv(r.file)
  ELSE IF Truthy(r.text) THEN parse_text(r.text.str, r.date, r.today)
  ELSE <<>>

\* rows as predict_text has them at `if not rows`
PredictTextRows(r) == parse_text(r.text.str, r.date, r.today)

Error400(detail) == [status |-> 400, detail |-> detail, body |-> <<>>]

\* a handler from its entry, with request r, to the start of the aggregation loop
Receive(r, rs, detail) ==
  /\ req' = r
  /\ rows' = rs
  /\ IF rs = <<>>
     THEN /\ response' = Error400(detail)
          /\ pc' = "done"
     ELSE /\ response' = response
          /\ pc' = "aggregate"
  /\ UNCHANGED <<peer_file, boot, peer_carbons, peer_sorted, peer_writes, idx, mi,
                 monthly, results, readers, call, ret>>

Predict ==
  /\ pc = "idle"
  /\ ServerReady
  /\ \E r \in Requests :
       /\ r.endpoint = "predict"
       /\ Receive(r, PredictRows(r), "Either CSV file or text input is required")

PredictText ==
  /\ pc = "idle"
  /\ ServerReady
  /\ \E r \in Requests :
       /\ r.endpoint = "predict_text"
       /\ Receive(r, PredictTextRows(r), "No valid consumption rows in text")

\* one iteration of `for row in rows`
AggregateStep ==
  /\ pc = "aggregate"
  /\ idx < Len(rows)
  /\ monthly' = AggregateRow(monthly, rows[idx + 1])
  /\ idx' = idx + 1
  /\ pc' = IF idx + 1 = Len(rows) THEN "generate" ELSE "aggregate"
  /\ UNCHANGED <<peer_file, boot, peer_carbons, peer_sorted, peer_writes, req, rows, mi,
                 results, response, readers, call, ret>>

\* one iteration of `for ym in sorted(monthly.keys())`
GenerateStep ==
  /\ pc = "generate"
  /\ mi < Len(monthly)
  /\ results' = GenerateMonth(results, Bucket(monthly, SortedKeys(monthly)[mi + 1]),
                              peer_carbons, peer_sorted)
  /\ mi' = mi + 1
  /\ UNCHANGED <<peer_file, boot, peer_carbons, peer_sorted, peer_writes, req, pc, rows,
                 idx, monthly, response, readers, call, ret>>

\* return results
Return ==
  /\ pc = "generate"
  /\ mi = Len(monthly)
  /\ response' = [status |-> 200, detail |-> "", body |-> results]
  /\ pc' = "done"
  /\ UNCHANGED <<peer_file, boot, peer_carbons, peer_sorted, peer_writes, req, rows, idx,
                 mi, monthly, results, readers, call, ret>>

Init ==
  /\ peer_file \in PipelinePeerFiles
  /\ boot = "starting"
  /\ peer_carbons = <<>>
  /\ peer_sorted = <<>>
  /\ peer_writes = NoWrites
  /\ req = NoRequest
  /\ pc = "idle"
  /\ rows = <<>>
  /\ idx = 0
  /\ mi = 0
  /\ monthly = <<>>
  /\ results = <<>>
  /\ response = NoResponse
  /\ readers = <<>>
  /\ call = NoCall
  /\ ret = <<>>

Next ==
  \/ StartupFail
  \/ LoadPeerCarbons
  \/ SortPeers
  \/ Predict
  \/ PredictText
  \/ AggregateStep
  \/ GenerateStep
  \/ Return

Spec == Init /\ [][Next]_vars

---------------------------------------------------------------------------
(* Claims about the pipeline (specification Spec)                          *)

\* a row as the claims speak of it: it has a date and an amount field, its
\* date is written in one of the four formats and its amount, thousands
\* separators removed, is a number
WellFormed(row) ==
  /\ "date" \in DOMAIN row
  /\ "amount" \in DOMAIN row
  /\ ~row.date.none
  /\ row.date.fmt \in {DATE_FORMATS[i] : i \in 1..Len(DATE_FORMATS)}
  /\ ParseFloat(StripCommas(StrOf(row.amount))).ok

RowAmount(row) == ParseFloat(StripCommas(StrOf(row.amount))).val

RECURSIVE SumOver(_, _)
\* the sum of f[i] for i in S
SumOver(f, S) ==
  IF S = {} THEN 0
  ELSE LET i == CHOOSE x \in S : TRUE IN f[i] + SumOver(f, S \ {i})

\* the amount the well-formed rows seen so far put into month ym
MonthTotal(ym) ==
  LET mine == {i \in 1..idx : WellFormed(rows[i]) /\ rows[i].date.ym = ym}
  IN  SumOver([i \in 1..Len(rows) |-> IF i \in mine THEN RowAmount(rows[i]) ELSE 0], mine)

\* the months the well-formed rows seen so far fall in
MonthsSeen == {rows[i].date.ym : i \in {j \in 1..idx : WellFormed(rows[j])}}

MonthNumber(ym) == 12 * ym[1] + ym[2]

\* C1: the list a handler returns holds exactly the year-months whose
\* aggregated total is > 0, each once, in strictly ascending order, whatever
\* the order of the rows
C1_ResultMonths ==
  (pc = "done" /\ response.status = 200) =>
    LET body == response.body
    IN  /\ \A i \in 1..(Len(body) - 1) :
              MonthNumber(body[i].month) < MonthNumber(body[i + 1].month)
        /\ {body[i].month : i \in 1..Len(body)} = {ym \in MonthsSeen : MonthTotal(ym) > 0}

\* C1 witness: two months are returned for rows that came latest month first
C1_Witness ==
  /\ pc = "done"
  /\ response.status = 200
  /\ Len(response.body) = 2
  /\ Len(rows) >= 2
  /\ MonthNumber(rows[1].date.ym) > MonthNumber(rows[2].date.ym)

RECURSIVE IdealAggregate(_)
\* the accumulators built from rows that are all well-formed
IdealAggregate(rs) ==
  IF rs = <<>> THEN <<>>
  ELSE LET n == Len(rs)
           row == rs[n]
       IN  Accumulate(IdealAggregate(SubSeq(rs, 1, n - 1)), row.date.ym,
                      infer_category(Or(Get(row, "merchant", NoneStr),
                                        Get(row, "merchant_name", Str(<<>>))),
                                     Get(row, "category", Str(<<>>))),
                      RowAmount(row))

\* C2: after any number of rows the accumulators are those of the well-formed
\* rows alone, in the same order: a malformed row changes nothing and does
\* not stop the loop
C2_SkipAndContinue ==
  (pc \in {"aggregate", "generate", "done"}) =>
    monthly = IdealAggregate(SelectSeq(SubSeq(rows, 1, idx), WellFormed))

\* C2 witness: a malformed row was consumed between two well-formed ones
C2_Witness ==
  /\ pc = "generate"
  /\ idx = 3
  /\ WellFormed(rows[1])
  /\ ~WellFormed(rows[2])
  /\ WellFormed(rows[3])
  /\ Len(monthly) = 2

\* a row of the upload that the pipeline drops for its date or its amount
Unusable(row) ==
  /\ "date" \in DOMAIN row
  /\ "amount" \in DOMAIN row
  /\ \/ row.date.none
     \/ row.date.fmt \notin {DATE_FORMATS[i] : i \in 1..Len(DATE_FORMATS)}
     \/ ~ParseFloat(StripCommas(StrOf(row.amount))).ok

\* C3: when every row of an upload is dropped for an unparseable date or an
\* unparseable amount, so that no month is produced, the caller gets an
\* error, never an empty list as a success
C3_NoEmptySuccess ==
  (/\ pc = "done"
   /\ req.has_file
   /\ req.file # <<>>
   /\ \A i \in 1..Len(req.file) : Unusable(req.file[i]))
    => response.status = 400

\* C4: in every bucket total_amt is the sum of category_amounts, after every
\* row; so the ratios of every month with total_amt > 0 sum to 1
C4_RatioClosure ==
  /\ \A i \in 1..Len(monthly) :
        monthly[i].total_amt =
          SumOver([j \in 1..Len(monthly[i].category_amounts) |->
                     monthly[i].category_amounts[j].amt],
                  1..Len(monthly[i].category_amounts))
  /\ \A i \in 1..Len(results) :
        LET cr == results[i].locals.cat_ratio
            d  == results[i].locals.total_amt
        IN  /\ d > 0
            /\ SumOver([j \in 1..Len(cr) |-> cr[j].ratio.num * (d \div cr[j].ratio.den)],
                       1..Len(cr)) = d
            /\ \A j \in 1..Len(cr) : d % cr[j].ratio.den = 0

\* C4 witness: a month of two categories, one of them fed by two rows, has
\* its ratios computed
C4_Witness ==
  /\ Len(results) = 1
  /\ Len(results[1].locals.cat_ratio) = 2
  /\ results[1].locals.txn_count = 3

\* C8: every ratio and every carbon_kg of a returned month is >= 0, whenever
\* every amount of the rows is a number
C8_NonNegative ==
  (\A i \in 1..Len(rows) : WellFormed(rows[i])) =>
    \A i \in 1..Len(results) :
       /\ \A j \in 1..Len(results[i].locals.cat_ratio) :
             results[i].locals.cat_ratio[j].ratio.num >= 0
       /\ results[i].locals.carbon_kg.num >= 0
       /\ results[i].carbon_kg >= 0

---------------------------------------------------------------------------
(* Category inference on its own (specification SpecCat)                   *)

Merchants ==
  { NoneStr,
    Str(<<>>),
    Str(<<" ", " ">>),
    Str(<<"S", "t", "a", "r", "b", "u", "c", "k", "s">>),
    Str(<<"<ku>", "<pang>", "<i>", "<cheu>">>),                             \* 쿠팡이츠
    Str(<<"u", "b", "e", "r", "e", "a", "t", "s">>),
    Str(<<"<gyeol>", "<je>">>),                                             \* 결제
    Str(<<"O", "N", "L", "I", "N", "E">>),
    Str(<<"o", "n", "-", "l", "i", "n", "e">>),
    Str(<<"z", "z", "z">>),
    Str(<<" ", "<dae>", "<han>", "<hang>", "<gong>", " ">>),                \* 대한항공
    Str(<<"<seu>", "<ta>", "<beog>", "<seu>", " ", "<bae>", "<dal>">>),     \* 스타벅스 배달
    Str(<<"N", "e", "t", "f", "l", "i", "x">>),
    Str(<<"k", "o", "r", "e", "a", "n">>) }

Categories ==
  { NoneStr,
    Str(<<>>),
    Str(<<" ">>),
    Str(<<"A", "i", "r">>),
    Str(<<"<taeg>", "<si>">>) }                                             \* 택시

InitCat ==
  /\ peer_file = MissingFile
  /\ boot = "starting"
  /\ peer_carbons = <<>>
  /\ peer_sorted = <<>>
  /\ peer_writes = NoWrites
  /\ req = NoRequest
  /\ pc = "idle"
  /\ rows = <<>>
  /\ idx = 0
  /\ mi = 0
  /\ monthly = <<>>
  /\ results = <<>>
  /\ response = NoResponse
  /\ readers = <<>>
  /\ call \in {[fn |-> "infer_category", merchant |-> m, category |-> c] :
                 m \in Merchants, c \in Categories}
  /\ ret = <<>>

\* one call of infer_category(merchant, category)
CallInferCategory ==
  /\ call.fn = "infer_category"
  /\ ret = <<>>
  /\ ret' = <<infer_category(call.merchant, call.category)>>
  /\ UNCHANGED <<peer_file, boot, peer_carbons, peer_sorted, peer_writes, req, pc, rows,
                 idx, mi, monthly, results, response, readers, call>>

NextCat == CallInferCategory

SpecCat == InitCat /\ [][NextCat]_vars

\* missing, empty or whitespace only
Blank(v) == v.none \/ \A i \in 1..Len(v.str) : v.str[i] \in Whitespace

\* the category labels of the table, and the catch-all
Vocabulary == {CATEGORY_KEYWORDS[i].cat : i \in 1..Len(CATEGORY_KEYWORDS)} \cup {CAT_OTHER}

\* C9: infer_category returns the catch-all for two blank inputs; else the
\* earliest-declared category one of whose keywords occurs, case-insensitively,
\* in the combined text; else the online category when a payment token
\* occurs and the catch-all otherwise; the label is always in the vocabulary
C9_InferCategory ==
  (call.fn = "infer_category" /\ ret # <<>>) =>
    LET text == Lower(Strip(OrEmpty(call.merchant))) \o <<" ">>
                  \o Lower(Strip(OrEmpty(call.category)))
        Matching == {i \in 1..Len(CATEGORY_KEYWORDS) :
                       \E j \in 1..Len(CATEGORY_KEYWORDS[i].keywords) :
                          Contains(text, Lower(CATEGORY_KEYWORDS[i].keywords[j]))}
        label == ret[1]
    IN  /\ label \in Vocabulary
        /\ IF Blank(call.merchant) /\ Blank(call.category) THEN label = CAT_OTHER
           ELSE IF Matching # {}
                THEN label = CATEGORY_KEYWORDS[SetMin(Matching)].cat
           ELSE IF \E t \in 1..Len(FALLBACK_TOKENS) : Contains(text, FALLBACK_TOKENS[t])
                THEN label = CAT_ONLINE
           ELSE label = CAT_OTHER

\* C9 witness: keywords of two categories occur (스타벅스 of 카페, 배달 of 배달)
\* and the earlier-declared one was returned
C9_Witness ==
  /\ call.fn = "infer_category"
  /\ ret = << <<"<ka>", "<pe>">> >>
  /\ KeywordHit(Norm(call.merchant) \o <<" ">> \o Norm(call.category), 1)
  /\ KeywordHit(Norm(call.merchant) \o <<" ">> \o Norm(call.category), 11)

---------------------------------------------------------------------------
(* Score and climate type on their own (specification SpecScore)           *)

MaxPeers == 5

\* peer values and carbon values in kg; 5, 10, 15, 20, 25 with 12 is the
\* documented example
PeerValues == {5, 10, 15, 20, 25}

CarbonInputs == {RatOf(0), RatOf(5), RatOf(12), RatOf(20), Rat(51, 2)}

InitScore ==
  /\ peer_carbons \in SeqsUpTo(PeerValues, MaxPeers)
  /\ peer_sorted = Sorted(peer_carbons)
  /\ peer_file = PeerFile(TRUE, [i \in 1..Len(peer_carbons) |-> Cell(peer_carbons[i])])
  /\ boot = "up"
  /\ peer_writes = [peer_carbons |-> 1, peer_sorted |-> 1]
  /\ req = NoRequest
  /\ pc = "idle"
  /\ rows = <<>>
  /\ idx = 0
  /\ mi = 0
  /\ monthly = <<>>
  /\ results = <<>>
  /\ response = NoResponse
  /\ readers = <<>>
  /\ call = NoCall
  /\ ret = <<>>

\* one call of calculate_carbon_score(carbon_kg, peer_carbons)
CallCarbonScore ==
  /\ call = NoCall
  /\ \E c \in CarbonInputs :
        /\ call' = [fn |-> "calculate_carbon_score", carbon_kg |-> c]
        /\ ret' = <<calculate_carbon_score(c, peer_carbons)>>
  /\ UNCHANGED <<peer_file, boot, peer_carbons, peer_sorted, peer_writes, req, pc, rows,
                 idx, mi, monthly, results, response, readers>>

\* one call of classify_climate_type(carbon_kg)
CallClimateType ==
  /\ call = NoCall
  /\ \E c \in CarbonInputs :
        /\ call' = [fn |-> "classify_climate_type", carbon_kg |-> c]
        /\ ret' = <<classify_climate_type(c, peer_sorted)>>
  /\ UNCHANGED <<peer_file, boot, peer_carbons, peer_sorted, peer_writes, req, pc, rows,
                 idx, mi, monthly, results, response, readers>>

NextScore == CallCarbonScore \/ CallClimateType

SpecScore == InitScore /\ [][NextScore]_vars

\* C5: the score is 50 without peers and 100 - 100 * (peers strictly below
\* carbon_kg) / (peers) otherwise; it lies in [0, 100]; peers 5, 10, 15, 20,
\* 25 and carbon_kg 12 give 60
C5_CarbonScore ==
  (call.fn = "calculate_carbon_score") =>
    LET score == ret[1]
        c     == call.carbon_kg
        n     == Len(peer_carbons)
        below == Cardinality({i \in 1..n : peer_carbons[i] * c.den < c.num})
    IN  /\ n = 0 => score = RatOf(50)
        /\ n > 0 => score.num * n = (100 * n - 100 * below) * score.den
        /\ 0 <= score.num /\ score.num <= 100 * score.den
        /\ (peer_carbons = <<5, 10, 15, 20, 25>> /\ c = RatOf(12)) => score = RatOf(60)

\* C5 witness: the documented example has been scored
C5_Witness ==
  /\ call = [fn |-> "calculate_carbon_score", carbon_kg |-> RatOf(12)]
  /\ peer_carbons = <<5, 10, 15, 20, 25>>
  /\ ret = <<RatOf(60)>>

\* C6: the climate type is moderate without peers; otherwise, with rank the
\* share of peer values <= carbon_kg, it is high-carbon iff rank >= 0.80,
\* low-carbon iff rank <= 0.20 and moderate in every other case
C6_ClimateType ==
  (call.fn = "classify_climate_type") =>
    LET label  == ret[1]
        c      == call.carbon_kg
        n      == Len(peer_carbons)
        atmost == Cardinality({i \in 1..n : peer_carbons[i] * c.den <= c.num})
    IN  IF n = 0 THEN label = "moderate"
        ELSE /\ label = "high-carbon" <=> 100 * atmost >= 80 * n
             /\ label = "low-carbon" <=> 100 * atmost <= 20 * n
             /\ label = "moderate" <=> (100 * atmost < 80 * n /\ 100 * atmost > 20 * n)

\* C6 witness: carbon_kg equals a peer value, that peer brings the rank to
\* exactly 0.80 and the type is high-carbon
C6_Witness ==
  /\ call = [fn |-> "classify_climate_type", carbon_kg |-> RatOf(20)]
  /\ peer_carbons = <<25, 5, 20, 10, 15>>
  /\ ret = <<"high-carbon">>

---------------------------------------------------------------------------
(* Recommendations on their own (specification SpecRec)                    *)

MaxCats == 3

MaxTopN == 3

\* 카페, 항공, 기타 and 여가, which has no emission factor of its own
RecCats ==
  { <<"<ka>", "<pe>">>, <<"<hang>", "<gong>">>, <<"<gi>", "<ta>">>, <<"<yeo>", "<ga>">> }

RecAmounts == {1000, 5000, -2000}

TopNs == (-1)..MaxTopN

\* the category_amounts of a month as the handlers build them: one entry per
\* category, total > 0
RecCategoryAmounts ==
  {s \in SeqsUpTo([cat : RecCats, amt : RecAmounts], MaxCats) :
     /\ \A i, j \in 1..Len(s) : i # j => s[i].cat # s[j].cat
     /\ SumOver([i \in 1..Len(s) |-> s[i].amt], 1..Len(s)) > 0}

RecCall(ca, n) ==
  LET total == SumOver([i \in 1..Len(ca) |-> ca[i].amt], 1..Len(ca))
  IN  [fn |-> "generate_recommendations",
       category_amounts |-> ca,
       total_amt |-> total,
       category_ratios |-> [i \in 1..Len(ca) |->
                              [cat |-> ca[i].cat, ratio |-> Rat(ca[i].amt, total)]],
       top_n |-> n]

InitRec ==
  /\ peer_file = MissingFile
  /\ boot = "starting"
  /\ peer_carbons = <<>>
  /\ peer_sorted = <<>>
  /\ peer_writes = NoWrites
  /\ req = NoRequest
  /\ pc = "idle"
  /\ rows = <<>>
  /\ idx = 0
  /\ mi = 0
  /\ monthly = <<>>
  /\ results = <<>>
  /\ response = NoResponse
  /\ readers = <<>>
  /\ call \in {RecCall(ca, n) : ca \in RecCategoryAmounts, n \in TopNs}
  /\ ret = <<>>

\* one call of generate_recommendations
CallRecommendations ==
  /\ call.fn = "generate_recommendations"
  /\ ret = <<>>
  /\ ret' = <<generate_recommendations(call.category_amounts, RatOf(call.total_amt),
                                       call.category_ratios, call.top_n)>>
  /\ UNCHANGED <<peer_file, boot, peer_carbons, peer_sorted, peer_writes, req, pc, rows,
                 idx, mi, monthly, results, response, readers, call>>

NextRec == CallRecommendations

SpecRec == InitRec /\ [][NextRec]_vars

\* total_amt * ratio[c] * emission_factor[c] of the call, in units of 10^-5 kg
Emission(c) ==
  LET i == CHOOSE k \in 1..Len(call.category_ratios) : call.category_ratios[k].cat = c
      r == call.category_ratios[i].ratio
  IN  [num |-> call.total_amt * r.num * EmissionFactor(c), den |-> r.den]

\* a / a.den >= b / b.den, denominators positive
EmissionGeq(a, b) == a.num * b.den >= b.num * a.den

\* the recommendations follow non-increasing emission, every one is among the
\* n top emitters, and there are at most n of them
RecommendationsFor(recs, n) ==
  LET cats == {call.category_ratios[k].cat : k \in 1..Len(call.category_ratios)}
  IN  /\ \A i \in 1..Len(recs) : recs[i].category \in cats
      /\ \A i \in 1..(Len(recs) - 1) :
            EmissionGeq(Emission(recs[i].category), Emission(recs[i + 1].category))
      /\ \A i \in 1..Len(recs) :
            Cardinality({c \in cats :
                           ~EmissionGeq(Emission(recs[i].category), Emission(c))}) < n
      /\ Len(recs) <= n

\* C10: for every requested top_n >= 0 the recommendations are ordered by
\* non-increasing estimated emission, no category outside the top_n emitters
\* appears, and there are at most top_n of them
C10_Recommendations ==
  (call.fn = "generate_recommendations" /\ ret # <<>> /\ call.top_n >= 0) =>
    RecommendationsFor(ret[1], call.top_n)

\* C10 as stated, for every requested top_n
C10_EveryTopN ==
  (call.fn = "generate_recommendations" /\ ret # <<>>) =>
    RecommendationsFor(ret[1], call.top_n)

\* C10 witness: two of three categories are recommended, and the category the
\* input lists first is not the top emitter
C10_Witness ==
  /\ call.fn = "generate_recommendations"
  /\ call.top_n = 2
  /\ Len(call.category_ratios) = 3
  /\ ret # <<>>
  /\ Len(ret[1]) = 2
  /\ ret[1][1].category # call.category_ratios[1].cat
  /\ ret[1][2].category # call.category_ratios[1].cat

---------------------------------------------------------------------------
(* Startup against concurrent requests (specification SpecPeers)           *)

NumReaders == 2

MaxPeerRows == 2

PeerCells == {NaCell, Cell(5), Cell(10)}

ReaderCarbons == {RatOf(7), RatOf(12)}

PeerFiles ==
  {MissingFile, PeerFile(FALSE, <<>>)}
    \cup {PeerFile(TRUE, s) : s \in SeqsUpTo(PeerCells, MaxPeerRows)}

IdleReader ==
  [pc |-> "idle", carbon_kg |-> RatOf(0), seen_carbons |-> <<>>, seen_sorted |-> <<>>,
   carbon_score |-> RatOf(0), climate_type |-> ""]

InitPeers ==
  /\ peer_file \in PeerFiles
  /\ boot = "starting"
  /\ peer_carbons = <<>>
  /\ peer_sorted = <<>>
  /\ peer_writes = NoWrites
  /\ req = NoRequest
  /\ pc = "idle"
  /\ rows = <<>>
  /\ idx = 0
  /\ mi = 0
  /\ monthly = <<>>
  /\ results = <<>>
  /\ response = NoResponse
  /\ readers = [r \in 1..NumReaders |-> IdleReader]
  /\ call = NoCall
  /\ ret = <<>>

\* a request reaches its handler with the carbon_kg its rows amount to
Accept(r) ==
  /\ ServerReady
  /\ readers[r].pc = "idle"
  /\ \E c \in ReaderCarbons :
        readers' = [readers EXCEPT ![r].pc = "accepted", ![r].carbon_kg = c]
  /\ UNCHANGED <<peer_file, boot, peer_carbons, peer_sorted, peer_writes, req, pc, rows,
                 idx, mi, monthly, results, response, call, ret>>

\* carbon_score = calculate_carbon_score(carbon_kg, peer_carbons)
ReadScore(r) ==
  /\ readers[r].pc = "accepted"
  /\ readers' = [readers EXCEPT
                   ![r].pc = "scored",
                   ![r].seen_carbons = peer_carbons,
                   ![r].carbon_score = calculate_carbon_score(readers[r].carbon_kg,
                                                              peer_carbons)]
  /\ UNCHANGED <<peer_file, boot, peer_carbons, peer_sorted, peer_writes, req, pc, rows,
                 idx, mi, monthly, results, response, call, ret>>

\* climate_type = classify_climate_type(carbon_kg), which reads peer_sorted
ReadClimate(r) ==
  /\ readers[r].pc = "scored"
  /\ readers' = [readers EXCEPT
                   ![r].pc = "done",
                   ![r].seen_sorted = peer_sorted,
                   ![r].climate_type = classify_climate_type(readers[r].carbon_kg,
                                                             peer_sorted)]
  /\ UNCHANGED <<peer_file, boot, peer_carbons, peer_sorted, peer_writes, req, pc, rows,
                 idx, mi, monthly, results, response, call, ret>>

NextPeers ==
  \/ StartupFail
  \/ LoadPeerCarbons
  \/ SortPeers
  \/ \E r \in 1..NumReaders : Accept(r)
  \/ \E r \in 1..NumReaders : ReadScore(r)
  \/ \E r \in 1..NumReaders : ReadClimate(r)

SpecPeers == InitPeers /\ [][NextPeers]_vars

\* b is a and only a, reordered to ascend
AscendingPermutation(b, a) ==
  /\ Len(b) = Len(a)
  /\ \A i \in 1..(Len(b) - 1) : b[i] <= b[i + 1]
  /\ \A v \in {a[i] : i \in 1..Len(a)} \cup {b[i] : i \in 1..Len(b)} :
        Cardinality({i \in 1..Len(a) : a[i] = v}) = Cardinality({i \in 1..Len(b) : b[i] = v})

\* C7: peer_carbons and peer_sorted are written once, by startup, before any
\* request is served, and never after; every request, whatever the
\* interleaving, reads the same values, peer_sorted being the ascending
\* permutation of peer_carbons
C7_PeerDistribution ==
  /\ peer_writes.peer_carbons <= 1
  /\ peer_writes.peer_sorted <= 1
  /\ boot = "up" =>
        /\ peer_writes = [peer_carbons |-> 1, peer_sorted |-> 1]
        /\ peer_carbons = CarbonColumn(peer_file)
        /\ AscendingPermutation(peer_sorted, peer_carbons)
  /\ \A r \in DOMAIN readers :
        /\ readers[r].pc # "idle" => boot = "up"
        /\ readers[r].pc \in {"scored", "done"} => readers[r].seen_carbons = peer_carbons
        /\ readers[r].pc = "done" =>
              /\ readers[r].seen_sorted = peer_sorted
              /\ AscendingPermutation(readers[r].seen_sorted, readers[r].seen_carbons)
  /\ \A r1, r2 \in DOMAIN readers :
        /\ (readers[r1].pc \in {"scored", "done"} /\ readers[r2].pc \in {"scored", "done"})
              => readers[r1].seen_carbons = readers[r2].seen_carbons
        /\ (readers[r1].pc = "done" /\ readers[r2].pc = "done")
              => readers[r1].seen_sorted = readers[r2].seen_sorted

\* C7 witness: one request has finished and another is between its two reads,
\* on a peer file whose values are not in ascending order
C7_Witness ==
  /\ DOMAIN readers = 1..NumReaders
  /\ \E r1, r2 \in DOMAIN readers :
        /\ readers[r1].pc = "done"
        /\ readers[r2].pc = "scored"
  /\ peer_carbons = <<10, 5>>
  /\ peer_sorted = <<5, 10>>

---------------------------------------------------------------------------
(* The two scoring facets of one month (specification SpecFacets)          *)

\* carbon_score and climate_type of one month, as predict computes them from
\* the same carbon_kg (main.py:268 and 272)
ScoreMonth ==
  /\ call = NoCall
  /\ \E c \in CarbonInputs :
        /\ call' = [fn |-> "score_month", carbon_kg |-> c]
        /\ ret' = <<calculate_carbon_score(c, peer_carbons),
                    classify_climate_type(c, peer_sorted)>>
  /\ UNCHANGED <<peer_file, boot, peer_carbons, peer_sorted, peer_writes, req, pc, rows,
                 idx, mi, monthly, results, response, readers>>

NextFacets == ScoreMonth

SpecFacets == InitScore /\ [][NextFacets]_vars

\* C14: with a non-empty peer distribution, a month labelled low-carbon has
\* a carbon_score >= 80 for the same carbon_kg and the same peers
C14_LowCarbonScore ==
  (call.fn = "score_month" /\ peer_carbons # <<>> /\ ret[2] = "low-carbon") =>
    ret[1].num >= 80 * ret[1].den

\* C14 witness: a low-carbon month whose score is exactly 80, one peer lying
\* strictly below carbon_kg
C14_Witness ==
  /\ call.fn = "score_month"
  /\ Len(peer_carbons) = 5
  /\ ret[2] = "low-carbon"
  /\ ret[1] = RatOf(80)

---------------------------------------------------------------------------
(* One month at the result loop (specification SpecMonth)                  *)
(* The state is that of a handler at the end of its aggregation loop; the  *)
(* rows that built the accumulators are not kept.                          *)

\* amounts of a month whose total is 100, so that an amount is a share in
\* hundredths; the values lie around 0.07, 0.18, 0.25 and 0.35
ShareValues == {0, 10, 17, 18, 24, 25, 26, 34, 35}

TaxiValues == {0, 10}

\* category_amounts with the entries of amount 0 left out (no row, no entry)
WithoutZero(category_amounts) == SelectSeq(category_amounts, LAMBDA e : e.amt # 0)

\* a month of 배달, 카페, 교통, 택시 and 한식 spending, one transaction per category
MonthOfShares(d, c, t, x) ==
  LET category_amounts ==
        WithoutZero(<<[cat |-> <<"<bae>", "<dal>">>, amt |-> d],
                      [cat |-> <<"<ka>", "<pe>">>, amt |-> c],
                      [cat |-> <<"<gyo>", "<tong>">>, amt |-> t],
                      [cat |-> <<"<taeg>", "<si>">>, amt |-> x],
                      [cat |-> <<"<han>", "<sig>">>, amt |-> 100 - d - c - t - x]>>)
  IN  [ym |-> <<2024, 1>>,
       category_amounts |-> category_amounts,
       total_amt |-> 100,
       txn_count |-> Len(category_amounts)]

ShareBuckets ==
  {MonthOfShares(q[1], q[2], q[3], q[4]) :
     q \in {p \in ShareValues \X ShareValues \X ShareValues \X TaxiValues :
              p[1] + p[2] + p[3] + p[4] <= 100}}

TxnCounts == {1, 5, 6, 19, 20, 21}

\* average tickets around 10,000 and 30,000
TicketValues == {9999, 10000, 10001, 29999, 30000, 30001}

\* months of 카페 spending of n transactions whose average ticket is a, or
\* misses a by one unit of the total
TicketBuckets ==
  {[ym |-> <<2024, 1>>,
    category_amounts |-> <<[cat |-> <<"<ka>", "<pe>">>, amt |-> a * n + e]>>,
    total_amt |-> a * n + e,
    txn_count |-> n] :
     n \in TxnCounts, a \in TicketValues, e \in {-1, 0, 1}}

InitMonth ==
  /\ peer_file = PeerFile(TRUE, <<Cell(300000), NaCell, Cell(60000), Cell(120000)>>)
  /\ boot = "up"
  /\ peer_carbons = CarbonColumn(peer_file)
  /\ peer_sorted = Sorted(peer_carbons)
  /\ peer_writes = [peer_carbons |-> 1, peer_sorted |-> 1]
  /\ req = NoRequest
  /\ pc = "generate"
  /\ rows = <<>>
  /\ idx = 0
  /\ mi = 0
  /\ monthly \in {<<b>> : b \in ShareBuckets \cup TicketBuckets}
  /\ results = <<>>
  /\ response = NoResponse
  /\ readers = <<>>
  /\ call = NoCall
  /\ ret = <<>>

NextMonth == GenerateStep \/ Return

SpecMonth == InitMonth /\ [][NextMonth]_vars

\* the amount of the month's categories that fall in a bucket, a category
\* counting for the first of delivery, cafe, transport whose patterns it matches
BucketAmounts ==
  LET ca == monthly[1].category_amounts
      Of(Member(_)) ==
        SumOver([j \in 1..Len(ca) |-> IF Member(ca[j].cat) THEN ca[j].amt ELSE 0],
                1..Len(ca))
      InD(k) == _contains_any(k, DELIVERY_PAT)
      InC(k) == ~InD(k) /\ _contains_any(k, CAFE_PAT)
      InT(k) == ~InD(k) /\ ~InC(k) /\ _contains_any(k, TRANS_PAT)
  IN  [delivery |-> Of(InD), cafe |-> Of(InC), transport |-> Of(InT)]

BehaviorFor(n, total, inclusive) ==
  LET count == IF n > 1 THEN n ELSE 1
      small == IF inclusive THEN total <= 10000 * count ELSE total < 10000 * count
  IN  IF n >= 20 /\ small THEN "frequent small-ticket"
      ELSE IF n <= 5 /\ total >= 30000 * count THEN "rare large-ticket"
      ELSE "balanced"

\* C12: behavior_type is frequent small-ticket iff transaction_count >= 20
\* and average_ticket <= 10,000; otherwise rare large-ticket iff
\* transaction_count <= 5 and average_ticket >= 30,000; otherwise balanced
C12_BehaviorType ==
  (Len(monthly) = 1 /\ Len(results) = 1) =>
    results[1].behavior_type =
      BehaviorFor(monthly[1].txn_count, monthly[1].total_amt, TRUE)

\* C12 as stated: frequent small-ticket requires average_ticket < 10,000, so
\* that 20 transactions of 10,000 on average are balanced
C12_StrictlyBelow ==
  (Len(monthly) = 1 /\ Len(results) = 1) =>
    results[1].behavior_type =
      BehaviorFor(monthly[1].txn_count, monthly[1].total_amt, FALSE)

\* C12 witness: 20 transactions of exactly 10,000 on average have been
\* classified
C12_Witness ==
  /\ Len(monthly) = 1
  /\ Len(results) = 1
  /\ monthly[1].txn_count = 20
  /\ monthly[1].total_amt = 200000
  /\ results[1].behavior_type = "frequent small-ticket"

---------------------------------------------------------------------------
(* Free text with thousands separators (specification Spec)                *)

\* a text of the form "<merchant> <d,ddd>원": a merchant without digits,
\* separators or blanks, one blank, and an amount with a thousands separator
SeparatedAmountText(t) ==
  LET n == Len(t)
  IN  /\ n >= 8
      /\ t[n] = WON
      /\ IsDigit(t[n - 1]) /\ IsDigit(t[n - 2]) /\ IsDigit(t[n - 3])
      /\ t[n - 4] = ","
      /\ IsDigit(t[n - 5])
      /\ t[n - 6] = " "
      /\ \A i \in 1..(n - 7) :
            ~IsDigit(t[i]) /\ t[i] \notin Separators /\ t[i] \notin Whitespace

\* the number written d,ddd at the end of such a text
SeparatedAmount(t) ==
  LET n == Len(t)
  IN  1000 * DigitValue(t[n - 5]) + 100 * DigitValue(t[n - 3])
        + 10 * DigitValue(t[n - 2]) + DigitValue(t[n - 1])

\* C13: a text "<merchant> <d,ddd>원" yields exactly one record, whose
\* amount is the number without its separator and whose merchant is
\* <merchant>
C13_ThousandsSeparator ==
  (/\ pc # "idle"
   /\ ~req.has_file
   /\ ~req.text.none
   /\ SeparatedAmountText(req.text.str))
    => /\ Len(rows) = 1
       /\ rows[1].amount = Str(FloatRepr(SeparatedAmount(req.text.str)))
       /\ rows[1].merchant = Str(SubSeq(req.text.str, 1, Len(req.text.str) - 7))

=============================================================================
